---------------------------- MODULE Spec2Model ----------------------------
(***************************************************************************)
(* Model of the retry wrappers (utils/helpers.ts: withRetry and            *)
(* withGenericRetry) and of the batch widgets that drive them              *)
(* (PoseGenerator, BatchEditor, MultiProses).                              *)
(*                                                                         *)
(* The browser runs everything on one thread: a handler, or the            *)
(* continuation of an await together with the promise reactions it         *)
(* triggers, runs to its next await before any other task.  Each action    *)
(* below is one such run.                                                  *)
(***************************************************************************)
EXTENDS Integers, Sequences, FiniteSets, TLC

(***************************************************************************)
(* Bounds of the model.                                                    *)
(***************************************************************************)
MaxRetries == 3
MaxRuns == 2
NumPoses == 3
MaxFiles == 2
MaxPrompts == 2
MaxVideoPrompts == 2

(***************************************************************************)
(* PART 1 - withRetry / withGenericRetry                                   *)
(***************************************************************************)
VARIABLES
    policy,      \* "specific" (withRetry) or "generic" (withGenericRetry)
    retries,     \* the retries option of the call
    rpc,         \* "idle", "fn" (awaiting fn()), "delay" (awaiting delay()),
                 \* "resolved", "rejected"
    attempt,     \* the loop variable
    lastError,   \* the local lastError
    fnCalls,     \* number of invocations of fn in this call
    outLog,      \* what each invocation of fn settled with, in order
    onRetryLog,  \* the arguments of each onRetry call, in order
    delays,      \* number of delay(delayMs) taken
    settled      \* what the call resolved or rejected with

retryVars == <<policy, retries, rpc, attempt, lastError, fnCalls, outLog,
               onRetryLog, delays, settled>>

(***************************************************************************)
(* PART 2 - the batch widgets.  One widget of the page is exercised at a   *)
(* time; the fields below are that widget's.                               *)
(***************************************************************************)
VARIABLES
    widget,          \* which widget: "pose" (PoseGenerator), ...
    isRunning,       \* this.isRunning
    concurrency,     \* this.concurrency
    modelImage,      \* pose: this.modelImage is not null
    secondImage,     \* pose: this.figureImage / this.productImage is not null
    files,           \* BatchEditor: this.files.length
    prompts,         \* BatchEditor: the number of prompts in promptInput
    grid,            \* the job placeholders of outputGrid: the run that
                     \* built them and the jobs whose placeholder is left
    generateButton,  \* [disabled, hidden] of this.generateButton
    results,         \* this.results, a JavaScript array (0-based, may have holes)
    runs             \* one record per invocation of the run function that
                     \* passed its validation, in order of invocation

widgetVars == <<widget, isRunning, concurrency, modelImage, secondImage,
                files, prompts, grid, generateButton, results, runs>>

NoGrid == [run |-> 0, present |-> {}]

(***************************************************************************)
(* PART 3 - the components outside the windowed scheduler: the single-shot *)
(* generators (ImageGenerator.generateImage, ImageEditor.generateEdit,     *)
(* NarrativeAffiliator.generateNarrative), the sequential batches with     *)
(* their interruptible delay (ImageGenerator.generateBatchImages,          *)
(* VideoGenerator.generateBatchVideos) and ProductShotPro's results.       *)
(***************************************************************************)
VARIABLES
    tool,               \* which of these components is exercised
    isLoading,          \* this.isLoading
    inputs,             \* single-shot: [prompt, image], whether this.prompt
                        \* is not blank and whether an image is loaded
    shotButton,         \* single-shot: [disabled] of the generate button
    shot,               \* single-shot: position of the generate function
    isBatchRunning,     \* this.isBatchRunning / this.isBatchProcessRunning
    batchDelaySeconds,  \* this.batchDelaySeconds, in thousandths
    batchPrompts,       \* number of prompts in batchPromptInput
    batchButton,        \* [disabled, hidden] of generateBatchButton
    batch,              \* position of the sequential batch function
    sourceImage,        \* ProductShotPro: this.sourceImage is not null
    heap,               \* ProductShotPro: the ImageResult objects
    imageResults,       \* ProductShotPro: this.imageResults, as references
    tasks               \* ProductShotPro: regenerations and videos in flight

shotVars == <<isLoading, inputs, shotButton, shot>>
seqVars == <<isBatchRunning, batchDelaySeconds, batchPrompts, batchButton, batch>>
productVars == <<sourceImage, heap, imageResults, tasks>>
toolVars == <<tool, shotVars, seqVars, productVars>>

vars == <<retryVars, widgetVars, toolVars>>

\* the generate function of a single-shot generator is not running
NoShot == [pc |-> "idle", outcome |-> "none"]

\* no sequential batch has run
NoBatch ==
    [pc |-> "idle", index |-> 0, total |-> 0, attempt |-> 0, ms |-> 0,
     secondsLeft |-> 0, ticks |-> 0, started |-> <<>>]

\* none of the components of part 3 is exercised
ToolsIdle ==
    /\ tool = "none"
    /\ isLoading = FALSE
    /\ inputs = [prompt |-> FALSE, image |-> FALSE]
    /\ shotButton = [disabled |-> TRUE]
    /\ shot = NoShot
    /\ isBatchRunning = FALSE
    /\ batchDelaySeconds = 0
    /\ batchPrompts = 0
    /\ batchButton = [disabled |-> TRUE, hidden |-> FALSE]
    /\ batch = NoBatch
    /\ sourceImage = FALSE
    /\ heap = <<>>
    /\ imageResults = <<>>
    /\ tasks = {}

\* no widget is exercised
WidgetsIdle ==
    /\ widget = "none"
    /\ isRunning = FALSE
    /\ concurrency = 0
    /\ modelImage = FALSE
    /\ secondImage = FALSE
    /\ files = 0
    /\ prompts = 0
    /\ grid = NoGrid
    /\ generateButton = [disabled |-> TRUE, hidden |-> FALSE]
    /\ results = <<>>
    /\ runs = <<>>

Policies == {"specific", "generic"}

(***************************************************************************)
(* Rejection values of fn.  A value is null, undefined, or an object with  *)
(* a message property that is absent, a number or a string.                *)
(***************************************************************************)
Obj(msgType, msg) == [tag |-> "object", msgType |-> msgType, msg |-> msg]

RejectionValues ==
    { [tag |-> "null", msgType |-> "none", msg |-> ""],
      [tag |-> "undefined", msgType |-> "none", msg |-> ""],
      Obj("undefined", ""),
      Obj("number", "42"),
      Obj("string", "quota exceeded"),
      Obj("string", "null"),
      Obj("string", "5"),
      Obj("string", "{}"),
      Obj("string", "{\"error\":{\"code\":500}}"),
      Obj("string", "{\"error\":{\"code\":\"429\"}}"),
      Obj("string", "{\"error\":{\"code\":429}}") }

TypeErrorValue == Obj("string", "Cannot read properties of null")

NoValue == [tag |-> "none", msgType |-> "none", msg |-> ""]

\* What one invocation of fn (or the call) settles with.
Resolved(k) == [ok |-> TRUE, e |-> NoValue, src |-> "fn", by |-> k]
Thrown(e, k) ==
    [ok |-> FALSE, e |-> e, src |-> "fn",
     by |-> IF e.tag = "object" THEN k ELSE 0]
ClassifierThrown == [ok |-> FALSE, e |-> TypeErrorValue, src |-> "classifier", by |-> 0]
Unsettled == [ok |-> FALSE, e |-> NoValue, src |-> "none", by |-> 0]

(***************************************************************************)
(* JSON.parse on the message strings above: a syntax error, or the parsed  *)
(* value (its type, its error property, and the code of that).             *)
(***************************************************************************)
Parsed(t, error, codeType, code) ==
    [syntaxError |-> FALSE, t |-> t, error |-> error,
     codeType |-> codeType, code |-> code]

JSONParse(s) ==
    CASE s = "null" -> Parsed("null", "absent", "absent", 0)
      [] s = "5"    -> Parsed("number", "absent", "absent", 0)
      [] s = "42"   -> Parsed("number", "absent", "absent", 0)
      [] s = "{}"   -> Parsed("object", "absent", "absent", 0)
      [] s = "{\"error\":{\"code\":500}}" -> Parsed("object", "object", "number", 500)
      [] s = "{\"error\":{\"code\":429}}" -> Parsed("object", "object", "number", 429)
      [] s = "{\"error\":{\"code\":\"429\"}}" -> Parsed("object", "object", "string", 429)
      [] OTHER -> [syntaxError |-> TRUE, t |-> "none", error |-> "absent",
                   codeType |-> "absent", code |-> 0]

\* errBody?.error?.code === 429
CodeIs429(errBody) ==
    /\ errBody.t = "object"
    /\ errBody.error = "object"
    /\ errBody.codeType = "number"
    /\ errBody.code = 429

\* reading e.message of null or undefined raises a TypeError
MessageReadThrows(e) == e.tag \in {"null", "undefined"}

\* line 194 / 233: attempt <= retries + 1
LoopCond(a, r) == a <= r + 1

\* a loop whose counter does not advance
NextAttemptStuck(a) == a

\* line 194 / 233: attempt++
NextAttempt(a) == a + 1

\* a classifier comparing with == instead of ===
Is429Loose(e) ==
    /\ e.msgType = "string"
    /\ ~JSONParse(e.msg).syntaxError
    /\ JSONParse(e.msg).t = "object"
    /\ JSONParse(e.msg).error = "object"
    /\ JSONParse(e.msg).codeType \in {"number", "string"}
    /\ JSONParse(e.msg).code = 429

\* the value of is429 when the catch block reaches line 212
Is429(e) ==
    /\ e.msgType = "string"
    /\ ~JSONParse(e.msg).syntaxError
    /\ CodeIs429(JSONParse(e.msg))

\* a generic policy that only retries rate-limit errors
CanRetryOnly429(p, e, a, r) == Is429(e) /\ a <= r

\* line 212 (withRetry) and line 238 (withGenericRetry)
CanRetry(p, e, a, r) ==
    IF p = "specific" THEN Is429(e) /\ a <= r ELSE a <= r

\* onRetry receiving a 0-based attempt number
OnRetryArgsZeroBased(a, t) == <<a - 1, t>>

\* onRetry receiving the number of the attempt to come
OnRetryArgsUpcoming(a, t) == <<a + 1, t>>

\* line 213 / 239: onRetry(attempt, e)
OnRetryArgs(a, t) == <<a, t>>

InitRetry ==
    /\ policy = "specific"
    /\ retries = 0
    /\ rpc = "idle"
    /\ attempt = 0
    /\ lastError = Unsettled
    /\ fnCalls = 0
    /\ outLog = <<>>
    /\ onRetryLog = <<>>
    /\ delays = 0
    /\ settled = Unsettled
    /\ WidgetsIdle
    /\ ToolsIdle

\* The head of the for loop with the loop variable at a: the next
\* invocation of fn, or the throw after the loop (line 222 / 247).
LoopHead(a) ==
    /\ attempt' = a
    /\ IF LoopCond(a, retries')
         THEN /\ fnCalls' = fnCalls + 1
              /\ rpc' = "fn"
              /\ settled' = settled
         ELSE /\ fnCalls' = fnCalls
              /\ rpc' = "rejected"
              /\ settled' = lastError'

\* withRetry(fn, {retries: r, ...}) or withGenericRetry(fn, {retries: r, ...})
\* is called: runs up to the first await fn().
Call(p, r) ==
    /\ rpc = "idle"
    /\ policy' = p
    /\ retries' = r
    /\ lastError' = lastError
    /\ LoopHead(1)
    /\ UNCHANGED <<outLog, onRetryLog, delays, widgetVars, toolVars>>

\* fn() resolving without the return: the loop goes on
FnResolvesNoReturn ==
    /\ rpc = "fn"
    /\ outLog' = Append(outLog, Resolved(fnCalls))
    /\ lastError' = lastError
    /\ UNCHANGED <<policy, retries, onRetryLog, delays, widgetVars, toolVars>>
    /\ LoopHead(NextAttempt(attempt))

\* await fn() resolves: return (line 196 / 235)
FnResolves ==
    /\ rpc = "fn"
    /\ outLog' = Append(outLog, Resolved(fnCalls))
    /\ rpc' = "resolved"
    /\ settled' = Resolved(fnCalls)
    /\ UNCHANGED <<policy, retries, attempt, lastError, fnCalls, onRetryLog, delays, widgetVars, toolVars>>

\* await fn() rejects with e: the catch block (lines 197-218 / 236-244)
FnRejects(e) ==
    /\ rpc = "fn"
    /\ outLog' = Append(outLog, Thrown(e, fnCalls))
    /\ lastError' = Thrown(e, fnCalls)
    /\ IF policy = "specific" /\ MessageReadThrows(e)
         THEN \* line 201: typeof e.message raises inside the catch block
              /\ rpc' = "rejected"
              /\ settled' = ClassifierThrown
              /\ UNCHANGED <<onRetryLog, delays>>
         ELSE IF CanRetry(policy, e, attempt, retries)
                THEN /\ onRetryLog' = Append(onRetryLog,
                                             OnRetryArgs(attempt, Thrown(e, fnCalls)))
                     /\ delays' = delays + 1
                     /\ rpc' = "delay"
                     /\ settled' = settled
                ELSE /\ rpc' = "rejected"
                     /\ settled' = Thrown(e, fnCalls)
                     /\ UNCHANGED <<onRetryLog, delays>>
    /\ UNCHANGED <<policy, retries, attempt, fnCalls, widgetVars, toolVars>>

\* await delay(delayMs) resolves: attempt++ and the loop head
DelayElapses ==
    /\ rpc = "delay"
    /\ lastError' = lastError
    /\ UNCHANGED <<policy, retries, outLog, onRetryLog, delays, widgetVars, toolVars>>
    /\ LoopHead(NextAttempt(attempt))

NextRetry ==
    \/ \E p \in Policies, r \in 0..MaxRetries : Call(p, r)
    \/ FnResolves
    \/ \E e \in RejectionValues : FnRejects(e)
    \/ DelayElapses

SpecRetry == InitRetry /\ [][NextRetry]_vars

(***************************************************************************)
(* Properties of the retry wrappers                                        *)
(***************************************************************************)
Min(a, b) == IF a <= b THEN a ELSE b

Last(q) == q[Len(q)]

RateLimitValue == Obj("string", "{\"error\":{\"code\":429}}")

CallSettled == rpc \in {"resolved", "rejected"}

\* the attempt numbers passed to onRetry, in order
OnRetryAttempts == [k \in 1..Len(onRetryLog) |-> onRetryLog[k][1]]

UpTo(n) == [k \in 1..n |-> k]

\* C1: with retries = R >= 0, fn is invoked at most R + 1 times during one
\* call of withRetry or withGenericRetry, whatever fn's outcomes are.
C1_AtMostRPlusOneCalls ==
    rpc # "idle" => fnCalls <= retries + 1

C1_Witness ==
    /\ rpc = "rejected"
    /\ policy = "specific"
    /\ retries >= 2
    /\ fnCalls = retries + 1

\* C2: under withRetry, when fn rejects with a value that is not a
\* rate-limit error, there is no retry: fn is invoked exactly once, onRetry
\* is never called, no delay is taken and the call rejects at once,
\* whatever retries is.
C2_NonRateLimitNotRetried ==
    (/\ policy = "specific"
     /\ Len(outLog) >= 1
     /\ ~outLog[1].ok
     /\ outLog[1].e # RateLimitValue)
    => (/\ rpc = "rejected"
        /\ fnCalls = 1
        /\ Len(outLog) = 1
        /\ onRetryLog = <<>>
        /\ delays = 0)

C2_Witness ==
    /\ policy = "specific"
    /\ retries >= 2
    /\ rpc = "rejected"
    /\ Len(outLog) = 1
    /\ outLog[1].e = Obj("string", "{\"error\":{\"code\":\"429\"}}")

\* C3: when withRetry or withGenericRetry gives up, the call rejects with
\* exactly the value thrown by the last attempt of fn.
C3_RejectsWithLastError ==
    rpc = "rejected" => (Len(outLog) >= 1 /\ settled = Last(outLog))

\* C4: as soon as one attempt of fn resolves, the call resolves with that
\* attempt's value, and fn, onRetry and delay are not used after it.
C4_ResolveIsFinal ==
    \A k \in 1..Len(outLog) :
        outLog[k].ok =>
            /\ k = Len(outLog)
            /\ rpc = "resolved"
            /\ settled = outLog[k]
            /\ settled = Resolved(k)
            /\ fnCalls = k
            /\ Len(onRetryLog) = k - 1
            /\ delays = k - 1

C4_Witness ==
    /\ rpc = "resolved"
    /\ fnCalls = 2
    /\ retries = 3
    /\ policy = "generic"

\* C5 as stated: onRetry is called exactly min(attempts_used, R) times.
C5_OnRetryMinAttemptsR ==
    CallSettled => Len(onRetryLog) = Min(fnCalls, retries)

\* C5 amended: when the call has settled, onRetry has been called exactly
\* attempts_used - 1 times (which is at most R), with the attempt numbers
\* 1, 2, ..., attempts_used - 1 in that order.
C5_OnRetryCount ==
    /\ OnRetryAttempts = UpTo(Len(onRetryLog))
    /\ Len(onRetryLog) <= retries
    /\ CallSettled =>
          /\ Len(onRetryLog) = fnCalls - 1
          /\ Len(onRetryLog) = Min(fnCalls - 1, retries)

C5_Witness ==
    /\ rpc = "resolved"
    /\ retries = 3
    /\ fnCalls = 3
    /\ Len(onRetryLog) = 2

\* C6: under withRetry with retries = R, if fn rejects with a 429 payload
\* on its first k <= R attempts and resolves on attempt k + 1, onRetry is
\* called exactly k times with the attempt numbers 1..k, fn is invoked
\* k + 1 times and the call resolves with the value of attempt k + 1.
C6_RateLimitedThenSuccess ==
    \A k \in 0..retries :
        (/\ policy = "specific"
         /\ Len(outLog) = k + 1
         /\ \A j \in 1..k : outLog[j] = Thrown(RateLimitValue, j)
         /\ outLog[k + 1].ok)
        => (/\ rpc = "resolved"
            /\ OnRetryAttempts = UpTo(k)
            /\ \A j \in 1..k : onRetryLog[j][2] = outLog[j]
            /\ fnCalls = k + 1
            /\ settled = Resolved(k + 1))

C6_Witness ==
    /\ policy = "specific"
    /\ retries = 3
    /\ rpc = "resolved"
    /\ Len(outLog) = 3
    /\ outLog[1] = Thrown(RateLimitValue, 1)
    /\ outLog[2] = Thrown(RateLimitValue, 2)

\* C7: under withGenericRetry every rejection is retried whatever its
\* shape: while attempts remain a rejection never ends the call, and when
\* fn always rejects the call rejects only after R + 1 invocations of fn
\* and R calls of onRetry.
C7_GenericRetriesEverything ==
    policy = "generic" =>
        /\ (rpc = "rejected") =>
              /\ fnCalls = retries + 1
              /\ Len(onRetryLog) = retries
              /\ Len(outLog) = retries + 1
        /\ (/\ rpc # "idle"
            /\ Len(outLog) <= retries
            /\ \A j \in 1..Len(outLog) : ~outLog[j].ok)
           => rpc \in {"fn", "delay"}

C7_Witness ==
    /\ policy = "generic"
    /\ rpc = "rejected"
    /\ retries >= 2
    /\ outLog[1].e.tag = "null"
    /\ outLog[2].e = Obj("string", "quota exceeded")

\* C8: the failure classification inside withRetry never raises an
\* exception of its own: for every rejection value that is not a
\* rate-limit error the call rejects with the original rejection value.
C8_ClassifierNeverThrows ==
    (/\ policy = "specific"
     /\ rpc = "rejected"
     /\ Last(outLog).e # RateLimitValue)
    => (/\ settled.src = "fn"
        /\ settled = Last(outLog))

(***************************************************************************)
(* PART 2 - the batch widgets                                              *)
(***************************************************************************)
Max(a, b) == IF a >= b THEN a ELSE b

\* The identity of what the operation of job j of run r produced (a
\* payload, or the message of the error it rejected with).
Id(r, j) == [run |-> r, job |-> j]
NoId == [run |-> 0, job |-> 0]
\* new Error("No image data in response.")
NoImageData == [run |-> 0, job |-> 1]

\* One element of this.results; a hole reads as undefined.
Entry(prompt, status, imageUrl, errorMessage) ==
    [prompt |-> prompt, status |-> status, imageUrl |-> imageUrl,
     errorMessage |-> errorMessage]
Hole == Entry(-1, "hole", NoId, NoId)
PendingEntry(prompt) == Entry(prompt, "pending", NoId, NoId)

\* arr[j] and arr[j] = v on a JavaScript array (index from 0; writing past
\* the end leaves holes)
ArrayGet(arr, j) == IF j < Len(arr) THEN arr[j + 1] ELSE Hole
\* a write that drops the entries after index j
ArraySetTruncating(arr, j, v) ==
    [k \in 1..(j + 1) |->
        IF k = j + 1 THEN v ELSE IF k <= Len(arr) THEN arr[k] ELSE Hole]

\* a write that goes to the first entry still pending, whatever j is
ArraySetFirstPending(arr, j, v) ==
    LET open == {k \in 1..Len(arr) : arr[k].status = "pending"}
        at == IF open = {} THEN Len(arr) + 1
                           ELSE CHOOSE k \in open : \A m \in open : k <= m
    IN  [k \in 1..Max(Len(arr), at) |->
            IF k = at THEN v ELSE IF k <= Len(arr) THEN arr[k] ELSE Hole]

ArraySet(arr, j, v) ==
    [k \in 1..Max(Len(arr), j + 1) |->
        IF k = j + 1 THEN v ELSE IF k <= Len(arr) THEN arr[k] ELSE Hole]

\* a slice without its upper end
ChunkToEnd(i, c, n) == {j \in 0..(n - 1) : i <= j}

\* jobs.slice(i, i + c) of a job list of length n
Chunk(i, c, n) == {j \in 0..(n - 1) : i <= j /\ j < i + c}

\* a loop that goes on as soon as one job of the window has settled
WindowSettledAny(chunk, inflight) ==
    \E j \in chunk : \A jb \in inflight : jb.job # j

\* await Promise.all(chunk.map(...)) resolves: every job of the window has
\* settled
WindowSettled(chunk, inflight) ==
    \A j \in chunk : \A jb \in inflight : jb.job # j

\* What the operation of a job settles with: a response with image data,
\* a response without, a rejection with an Error (thrown by the operation,
\* by the SDK or by fetch).
Outcomes == {"image", "noimage", "error"}

\* c is this.concurrency when the run starts; cancelled records that
\* this.isRunning was set to false while the run was in its loop, resized
\* that this.concurrency was changed while the run was in its loop, final
\* the final status the run writes to statusEl when it ends.
NewRun(total) ==
    [status |-> "loop", i |-> 0, inflight |-> {}, completedJobs |-> 0,
     windows |-> <<>>, total |-> total, jobs |-> <<>>,
     c |-> concurrency, cancelled |-> FALSE, resized |-> FALSE,
     final |-> "none"]

\* a loop that is left after its first window
LoopGoesOnOnce(i, total, fl) == i < total /\ fl /\ i = 0

\* a loop that does not look at the running flag
LoopGoesOnDeaf(i, total, fl) == i < total

\* for (...; i < jobs.length; ...) { if (!this.isRunning) break; ...
LoopGoesOn(i, total, fl) == i < total /\ fl

Active(run) == run.status \in {"loop", "delay"}

\* this.isRunning = false, seen by every run that is in its loop
Cancel(rs) ==
    [r \in 1..Len(rs) |->
        IF Active(rs[r]) THEN [rs[r] EXCEPT !.cancelled = TRUE] ELSE rs[r]]

(***************************************************************************)
(* The pose widgets.  PoseSelfie stands for the widgets that gate the      *)
(* generate button through updateGenerateButtonState (PoseSelfie,          *)
(* PoseGanci, PoseBoneka, PoseTreadmill, PoseMirrorSelfie); PoseGenerator  *)
(* sets the button in its handlers.  The widgets run the first NumPoses    *)
(* prompts of their pose list.                                             *)
(***************************************************************************)
PoseWidgets == {"PoseGenerator", "PoseSelfie"}

PoseGeneratorConcurrency == 3
PoseSelfieConcurrency == 2

PoseConcurrency(w) ==
    IF w = "PoseGenerator" THEN PoseGeneratorConcurrency
                           ELSE PoseSelfieConcurrency

\* PoseSelfie.updateGenerateButtonState (lines 176-178)
PoseButtonDisabled(mi, si, running) == ~(mi /\ si /\ ~running)

\* the guard of generatePoses (PoseGenerator line 250, PoseSelfie line 226)
PoseInputsPresent ==
    IF widget = "PoseGenerator" THEN modelImage
                                ELSE modelImage /\ secondImage

\* runJob(jobIndex) up to its await (lines 270-295), in window w
PoseJob(j, w, res) ==
    [job |-> j, attempt |-> 1, phase |-> "fn", win |-> w,
     captured |-> ArrayGet(res, j)]

\* The for loop of generatePoses at index i with this.isRunning = fl
\* (lines 323-327): the next window is started, or the loop is left.
PoseLoopAt(run, i, fl, res) ==
    IF LoopGoesOn(i, run.total, fl)
      THEN LET chunk == Chunk(i, concurrency, run.total)
               w == Len(run.windows) + 1
           IN  [run EXCEPT !.i = i,
                           !.windows = Append(@, chunk),
                           !.inflight = @ \cup {PoseJob(j, w, res) : j \in chunk}]
      ELSE \* 'Generation complete!', whatever this.isRunning is
           [run EXCEPT !.status = "done", !.final = "complete"]

\* handleFileUpload(e, type) after blobToDataUrl resolved
\* (PoseGenerator lines 159-171, PoseSelfie lines 141-156)
PoseHandleFileUpload(type) ==
    /\ widget \in PoseWidgets
    /\ modelImage' = (modelImage \/ type = "model")
    /\ secondImage' = (secondImage \/ type = "second")
    /\ generateButton' =
          IF widget = "PoseGenerator"
            THEN IF type = "model"
                   THEN [generateButton EXCEPT !.disabled = FALSE]
                   ELSE generateButton
            ELSE [generateButton EXCEPT
                    !.disabled = PoseButtonDisabled(modelImage', secondImage',
                                                    isRunning)]
    /\ UNCHANGED <<widget, isRunning, concurrency, results, runs, files, prompts,
                   grid, retryVars, toolVars>>

\* clearImage(type) (PoseGenerator lines 178-194, PoseSelfie lines 159-174)
PoseClearImage(type) ==
    /\ widget \in PoseWidgets
    /\ modelImage' = (modelImage /\ type # "model")
    /\ secondImage' = (secondImage /\ type # "second")
    /\ generateButton' =
          IF widget = "PoseGenerator"
            THEN IF type = "model"
                   THEN [generateButton EXCEPT !.disabled = TRUE]
                   ELSE generateButton
            ELSE [generateButton EXCEPT
                    !.disabled = PoseButtonDisabled(modelImage', secondImage',
                                                    isRunning)]
    /\ UNCHANGED <<widget, isRunning, concurrency, results, runs, files, prompts,
                   grid, retryVars, toolVars>>

\* reset() (PoseGenerator lines 196-204, PoseSelfie lines 186-195)
PoseReset ==
    /\ widget \in PoseWidgets
    /\ modelImage' = FALSE
    /\ secondImage' = FALSE
    /\ generateButton' = [generateButton EXCEPT !.disabled = TRUE]
    /\ results' = <<>>
    /\ isRunning' = FALSE
    /\ runs' = Cancel(runs)
    /\ UNCHANGED <<widget, concurrency, files, prompts, grid, retryVars, toolVars>>

\* a click on the generate button: generatePoses() up to its first await
\* (PoseGenerator lines 249-326, PoseSelfie lines 225-321)
PoseGeneratePoses ==
    /\ widget \in PoseWidgets
    /\ ~generateButton.disabled
    /\ PoseInputsPresent
    /\ Len(runs) < MaxRuns
    /\ LET res == [k \in 1..NumPoses |-> PendingEntry(k - 1)]
           run == PoseLoopAt(NewRun(NumPoses), 0, TRUE, res)
       IN  /\ results' = res
           /\ runs' = Append(runs, run)
           /\ isRunning' = (run.status = "loop")
           /\ generateButton' =
                 [generateButton EXCEPT !.disabled = (run.status = "loop")]
    /\ UNCHANGED <<widget, concurrency, modelImage, secondImage, files, prompts,
                   grid, retryVars, toolVars>>

\* The operation of job jb of run r settles with o: the rest of runJob
\* (PoseGenerator lines 297-319) and, when that settles the window, the
\* rest of the loop and of generatePoses (lines 323-332).
PoseRunJobSettles(r, jb, o) ==
    /\ widget \in PoseWidgets
    /\ r \in 1..Len(runs)
    /\ jb \in runs[r].inflight
    /\ LET run == runs[r]
           j == jb.job
           res == CASE o = "image" /\ isRunning ->
                         ArraySet(results, j,
                             [jb.captured EXCEPT !.status = "done",
                                                 !.imageUrl = Id(r, j)])
                    [] o = "noimage" /\ isRunning ->
                         ArraySet(results, j,
                             [ArrayGet(results, j) EXCEPT
                                 !.status = "error",
                                 !.errorMessage = NoImageData])
                    [] o = "error" ->
                         ArraySet(results, j,
                             [ArrayGet(results, j) EXCEPT
                                 !.status = "error",
                                 !.errorMessage = Id(r, j)])
                    [] OTHER -> results
           run1 == [run EXCEPT
                      !.inflight = @ \ {jb},
                      !.completedJobs = IF isRunning THEN @ + 1 ELSE @]
           run2 == IF /\ run.status = "loop"
                      /\ WindowSettled(run.windows[Len(run.windows)],
                                       run1.inflight)
                     THEN PoseLoopAt(run1, run1.i + concurrency,
                                     isRunning, res)
                     ELSE run1
           finished == run.status = "loop" /\ run2.status = "done"
       IN  /\ results' = res
           /\ runs' = IF finished THEN Cancel([runs EXCEPT ![r] = run2])
                                  ELSE [runs EXCEPT ![r] = run2]
           /\ isRunning' = IF finished THEN FALSE ELSE isRunning
           /\ generateButton' =
                 IF finished THEN [generateButton EXCEPT !.disabled = FALSE]
                             ELSE generateButton
    /\ UNCHANGED <<widget, concurrency, modelImage, secondImage, files, prompts,
                   grid, retryVars, toolVars>>

\* PoseGenerator's second image (the figure) reaches the operation only and
\* is not tracked.
ImageTypes == IF widget = "PoseGenerator" THEN {"model"} ELSE {"model", "second"}

NextPose ==
    \/ \E type \in ImageTypes : PoseHandleFileUpload(type)
    \/ \E type \in ImageTypes : PoseClearImage(type)
    \/ PoseReset
    \/ PoseGeneratePoses
    \/ \E r \in 1..Len(runs) : \E jb \in runs[r].inflight :
          \E o \in Outcomes : PoseRunJobSettles(r, jb, o)

(***************************************************************************)
(* BatchEditor                                                             *)
(***************************************************************************)
BatchConcurrency == 2
BatchRetries == 5

\* the Error a rejected attempt of the operation carries
RejectionOf(o) == Obj("string", "request failed")

\* lines 145-150: the flat job list
BatchJobList(F, P) ==
    [k \in 1..(F * P) |->
        [fileIndex |-> (k - 1) \div P, promptIndex |-> (k - 1) % P]]

\* line 121
BatchPendingResults(F, P) ==
    [f \in 1..F |-> [q \in 1..P |-> Entry(-1, "pending", NoId, NoId)]]

\* updateGenerateButtonState (lines 89-92)
BatchButtonDisabled(running, F, P) == running \/ F = 0 \/ P = 0

\* runJob(job) up to its first await (lines 155-166), in window w
BatchJob(j, w) ==
    [job |-> j, attempt |-> 0, phase |-> "blob", win |-> w, captured |-> Hole]

\* The for loop of generateEdits at index i with this.isRunning = fl
\* (lines 223-227).  A job whose placeholder is missing returns at once
\* (line 160).
RECURSIVE BatchLoopAt(_, _, _, _)
BatchLoopAt(run, i, fl, g) ==
    IF LoopGoesOn(i, run.total, fl)
      THEN LET chunk == Chunk(i, concurrency, run.total)
               w == Len(run.windows) + 1
               started == {j \in chunk : j \in g.present}
               run1 == [run EXCEPT
                          !.i = i,
                          !.windows = Append(@, chunk),
                          !.inflight = @ \cup {BatchJob(j, w) : j \in started}]
           IN  IF started = {} THEN BatchLoopAt(run1, i + concurrency, fl, g)
                               ELSE run1
      ELSE \* 'All edits complete!' or 'Batch editing stopped.' (lines 229-232)
           [run EXCEPT !.status = "done",
                       !.final = IF fl THEN "complete" ELSE "stopped"]

\* handleFileUpload (lines 76-87); the file input is disabled while loading
BatchHandleFileUpload(n) ==
    /\ widget = "BatchEditor"
    /\ ~generateButton.hidden
    /\ files' = n
    /\ generateButton' =
          [generateButton EXCEPT
             !.disabled = BatchButtonDisabled(isRunning, n, prompts)]
    /\ UNCHANGED <<widget, isRunning, concurrency, modelImage, secondImage,
                   prompts, grid, results, runs, retryVars, toolVars>>

\* updatePromptCounter (lines 68-74); the prompt input is disabled while
\* loading
BatchUpdatePromptCounter(n) ==
    /\ widget = "BatchEditor"
    /\ ~generateButton.hidden
    /\ prompts' = n
    /\ generateButton' =
          [generateButton EXCEPT
             !.disabled = BatchButtonDisabled(isRunning, files, n)]
    /\ UNCHANGED <<widget, isRunning, concurrency, modelImage, secondImage,
                   files, grid, results, runs, retryVars, toolVars>>

\* a click on the stop button (line 54), shown while loading
BatchStop ==
    /\ widget = "BatchEditor"
    /\ generateButton.hidden
    /\ isRunning' = FALSE
    /\ runs' = Cancel(runs)
    /\ UNCHANGED <<widget, concurrency, modelImage, secondImage, files,
                   prompts, grid, generateButton, results, retryVars, toolVars>>

\* a click on the generate button: generateEdits() up to its first await
\* (lines 110-226)
BatchGenerateEdits ==
    /\ widget = "BatchEditor"
    /\ ~generateButton.hidden
    /\ ~generateButton.disabled
    /\ prompts # 0 /\ files # 0
    /\ Len(runs) < MaxRuns
    /\ LET total == files * prompts
           g == [run |-> Len(runs) + 1, present |-> 0..(total - 1)]
           run0 == [NewRun(total) EXCEPT !.jobs = BatchJobList(files, prompts)]
           run == BatchLoopAt(run0, 0, TRUE, g)
       IN  /\ results' = BatchPendingResults(files, prompts)
           /\ grid' = g
           /\ runs' = Append(runs, run)
           /\ isRunning' = (run.status = "loop")
           /\ generateButton' =
                 IF run.status = "loop"
                   THEN [disabled |-> TRUE, hidden |-> TRUE]
                   ELSE [disabled |-> BatchButtonDisabled(FALSE, files, prompts),
                         hidden |-> FALSE]
    /\ UNCHANGED <<widget, concurrency, modelImage, secondImage, files,
                   prompts, retryVars, toolVars>>

\* Job jb of run r stays in flight as jb2.
BatchJobGoesOn(r, jb, jb2) ==
    /\ runs' = [runs EXCEPT ![r].inflight = (@ \ {jb}) \cup {jb2}]
    /\ UNCHANGED <<widget, isRunning, concurrency, modelImage, secondImage,
                   files, prompts, grid, generateButton, results, retryVars, toolVars>>

\* Job jb of run r leaves its try block (lines 180-219): how is "done",
\* "thrown" (an error with message msg reaches the catch block) or
\* "return" (line 180).  When that settles the window, the rest of the loop and of
\* generateEdits follows (lines 223-237).
BatchJobEnds(r, jb, how, msg) ==
    LET run == runs[r]
        j == jb.job
        f == run.jobs[j + 1].fileIndex + 1
        q == run.jobs[j + 1].promptIndex + 1
        res == CASE how = "done" ->
                      [results EXCEPT ![f][q] = Entry(-1, "done", Id(r, j), NoId)]
                 [] how = "thrown" ->
                      [results EXCEPT ![f][q] = Entry(-1, "error", NoId, msg)]
                 [] OTHER -> results
        g == IF how \in {"done", "thrown"} /\ grid.run = r
               THEN [grid EXCEPT !.present = @ \ {j}]
               ELSE grid
        run1 == [run EXCEPT
                   !.inflight = @ \ {jb},
                   !.completedJobs = IF isRunning THEN @ + 1 ELSE @]
        run2 == IF /\ run.status = "loop"
                   /\ WindowSettled(run.windows[Len(run.windows)],
                                    run1.inflight)
                  THEN BatchLoopAt(run1, run1.i + concurrency, isRunning, g)
                  ELSE run1
        finished == run.status = "loop" /\ run2.status = "done"
    IN  /\ results' = res
        /\ grid' = g
        /\ runs' = IF finished THEN Cancel([runs EXCEPT ![r] = run2])
                               ELSE [runs EXCEPT ![r] = run2]
        /\ isRunning' = IF finished THEN FALSE ELSE isRunning
        /\ generateButton' =
              IF finished
                THEN [disabled |-> BatchButtonDisabled(FALSE, files, prompts),
                      hidden |-> FALSE]
                ELSE generateButton
        /\ UNCHANGED <<widget, concurrency, modelImage, secondImage, files,
                       prompts, retryVars, toolVars>>

\* await blobToDataUrl(file) settles (line 166)
BatchBlobSettles(r, jb, ok) ==
    /\ widget = "BatchEditor"
    /\ r \in 1..Len(runs)
    /\ jb \in runs[r].inflight
    /\ jb.phase = "blob"
    /\ IF ok
         THEN \* withGenericRetry starts its loop: the first fn()
              BatchJobGoesOn(r, jb, [jb EXCEPT !.attempt = 1, !.phase = "fn"])
         ELSE \* the reader's error event has no message
              BatchJobEnds(r, jb, "thrown", NoId)

\* one attempt of generateFn settles with o, inside withGenericRetry
\* (lines 169-178; helpers lines 233-245)
BatchFnSettles(r, jb, o) ==
    /\ widget = "BatchEditor"
    /\ r \in 1..Len(runs)
    /\ jb \in runs[r].inflight
    /\ jb.phase = "fn"
    /\ IF o = "error"
         THEN IF CanRetry("generic", RejectionOf(o), jb.attempt, BatchRetries)
                THEN BatchJobGoesOn(r, jb, [jb EXCEPT !.phase = "delay"])
                ELSE BatchJobEnds(r, jb, "thrown", Id(r, jb.job))
         ELSE IF ~isRunning
                THEN BatchJobEnds(r, jb, "return", NoId)
                ELSE IF o = "noimage"
                       THEN BatchJobEnds(r, jb, "thrown", NoImageData)
                       ELSE BatchJobEnds(r, jb, "done", NoId)

\* await delay(delayMs) of withGenericRetry resolves: attempt++ and the
\* next fn() (the throw after the loop is not reachable: the loop condition
\* holds whenever the retry condition held)
BatchDelayElapses(r, jb) ==
    /\ widget = "BatchEditor"
    /\ r \in 1..Len(runs)
    /\ jb \in runs[r].inflight
    /\ jb.phase = "delay"
    /\ IF LoopCond(NextAttempt(jb.attempt), BatchRetries)
         THEN BatchJobGoesOn(r, jb, [jb EXCEPT !.attempt = NextAttempt(@),
                                               !.phase = "fn"])
         ELSE BatchJobEnds(r, jb, "thrown", Id(r, jb.job))

NextBatch ==
    \/ \E n \in 0..MaxFiles : BatchHandleFileUpload(n)
    \/ \E n \in 0..MaxPrompts : BatchUpdatePromptCounter(n)
    \/ BatchStop
    \/ BatchGenerateEdits
    \/ \E r \in 1..Len(runs) : \E jb \in runs[r].inflight :
          \/ \E ok \in BOOLEAN : BatchBlobSettles(r, jb, ok)
          \/ \E o \in Outcomes : BatchFnSettles(r, jb, o)
          \/ BatchDelayElapses(r, jb)

(***************************************************************************)
(* MultiProses (text-to-video mode)                                        *)
(***************************************************************************)
MultiConcurrency == 2
MultiRetries == 10

\* data-concurrency of the concurrency buttons (lines 98-104); the markup
\* is not part of the sources, so the choices are the default and one below
ConcurrencyChoices == {1, MultiConcurrency}

\* runSingleJob(prompt, index) up to its first await (lines 160-184), in
\* window w
MultiJob(j, w) ==
    [job |-> j, attempt |-> 1, phase |-> "fn", win |-> w, captured |-> Hole]

\* The for loop of generateVideos at index i with this.isRunning = fl
\* (lines 231-246).  runSingleJob of an index whose placeholder is no
\* longer in the document raises before its try block (lines 161-162): its
\* promise is rejected, Promise.all rejects and the finally block runs while
\* the other jobs of the chunk are in flight.
MultiLoopAt(run, i, fl, g) ==
    IF LoopGoesOn(i, run.total, fl)
      THEN LET chunk == Chunk(i, concurrency, run.total)
               w == Len(run.windows) + 1
               started == {j \in chunk : j \in g.present}
           IN  [run EXCEPT
                  !.i = i,
                  !.windows = Append(@, chunk),
                  !.inflight = @ \cup {MultiJob(j, w) : j \in started},
                  !.status = IF started = chunk THEN "loop" ELSE "rejected",
                  !.final = IF started = chunk THEN @ ELSE "complete"]
      ELSE \* the finally block's status text (line 254)
           [run EXCEPT !.status = "done",
                       !.final = IF fl THEN "complete" ELSE "stopped"]

\* the finally block of generateVideos (lines 253-263) once run reached
\* status st
MultiFinally(st) ==
    /\ isRunning' = IF st \in {"done", "rejected"} THEN FALSE ELSE isRunning
    /\ generateButton' =
          IF st \in {"done", "rejected"}
            THEN [disabled |-> FALSE, hidden |-> FALSE]
            ELSE generateButton

\* a click on a concurrency button (lines 98-104)
MultiSetConcurrency(c) ==
    /\ widget = "MultiProses"
    /\ concurrency' = c
    /\ runs' = [r \in 1..Len(runs) |->
                  IF Active(runs[r]) /\ c # concurrency
                    THEN [runs[r] EXCEPT !.resized = TRUE]
                    ELSE runs[r]]
    /\ UNCHANGED <<widget, isRunning, modelImage, secondImage, files, prompts,
                   grid, generateButton, results, retryVars, toolVars>>

\* input into the prompt box: n non-empty lines
MultiPromptInput(n) ==
    /\ widget = "MultiProses"
    /\ prompts' = n
    /\ UNCHANGED <<widget, isRunning, concurrency, modelImage, secondImage,
                   files, grid, generateButton, results, runs, retryVars, toolVars>>

\* a click on the stop button (line 55), shown while generateVideos runs
MultiStop ==
    /\ widget = "MultiProses"
    /\ generateButton.hidden
    /\ isRunning' = FALSE
    /\ runs' = Cancel(runs)
    /\ UNCHANGED <<widget, concurrency, modelImage, secondImage, files,
                   prompts, grid, generateButton, results, retryVars, toolVars>>

\* a click on the generate button: generateVideos() up to its first await
\* (lines 128-246)
MultiGenerateVideos ==
    /\ widget = "MultiProses"
    /\ ~generateButton.hidden
    /\ prompts # 0
    /\ Len(runs) < MaxRuns
    /\ LET g == [run |-> Len(runs) + 1, present |-> 0..(prompts - 1)]
           run == MultiLoopAt(NewRun(prompts), 0, TRUE, g)
       IN  /\ results' = <<>>
           /\ grid' = g
           /\ runs' = Append(runs, run)
           /\ isRunning' = TRUE
           /\ generateButton' = [disabled |-> TRUE, hidden |-> TRUE]
    /\ UNCHANGED <<widget, concurrency, modelImage, secondImage, files,
                   prompts, retryVars, toolVars>>

\* Job jb of run r stays in flight as jb2.
MultiJobGoesOn(r, jb, jb2) ==
    /\ runs' = [runs EXCEPT ![r].inflight = (@ \ {jb}) \cup {jb2}]
    /\ UNCHANGED <<widget, isRunning, concurrency, modelImage, secondImage,
                   files, prompts, grid, generateButton, results, retryVars, toolVars>>

\* Job jb of run r leaves withGenericRetry (lines 192-227): how is "done"
\* (a video url) or "thrown" (an error object reaches the catch block).
\* When that settles the window, the rest of the loop body follows (lines
\* 246-251).
MultiJobEnds(r, jb, how) ==
    LET run == runs[r]
        j == jb.job
        g == IF isRunning /\ grid.run = r
               THEN [grid EXCEPT !.present = @ \ {j}]
               ELSE grid
        run1 == [run EXCEPT
                   !.inflight = @ \ {jb},
                   !.completedJobs = IF isRunning THEN @ + 1 ELSE @]
        run2 == IF run.status # "loop"
                  THEN run1
                  ELSE IF ~WindowSettled(run.windows[Len(run.windows)],
                                         run1.inflight)
                    THEN run1
                    ELSE IF run1.i + concurrency < run1.total /\ isRunning
                      THEN [run1 EXCEPT !.status = "delay"]
                      ELSE MultiLoopAt(run1, run1.i + concurrency,
                                       isRunning, g)
    IN  /\ results' = IF how = "done" /\ isRunning
                        THEN Append(results, [run |-> r, job |-> j])
                        ELSE results
        /\ grid' = g
        /\ runs' = [runs EXCEPT ![r] = run2]
        /\ IF run.status = "loop" THEN MultiFinally(run2.status)
                                  ELSE UNCHANGED <<isRunning, generateButton>>
        /\ UNCHANGED <<widget, concurrency, modelImage, secondImage, files,
                       prompts, retryVars, toolVars>>

\* one attempt of generateFn settles with o, inside withGenericRetry
\* (lines 184-190; helpers lines 233-245)
MultiFnSettles(r, jb, o) ==
    /\ widget = "MultiProses"
    /\ r \in 1..Len(runs)
    /\ jb \in runs[r].inflight
    /\ jb.phase = "fn"
    /\ IF o = "error"
         THEN IF CanRetry("generic", RejectionOf(o), jb.attempt, MultiRetries)
                THEN MultiJobGoesOn(r, jb, [jb EXCEPT !.phase = "delay"])
                ELSE MultiJobEnds(r, jb, "thrown")
         ELSE MultiJobEnds(r, jb, "done")

\* await delay(delayMs) of withGenericRetry resolves: attempt++ and the
\* next fn()
MultiDelayElapses(r, jb) ==
    /\ widget = "MultiProses"
    /\ r \in 1..Len(runs)
    /\ jb \in runs[r].inflight
    /\ jb.phase = "delay"
    /\ IF LoopCond(NextAttempt(jb.attempt), MultiRetries)
         THEN MultiJobGoesOn(r, jb, [jb EXCEPT !.attempt = NextAttempt(@),
                                               !.phase = "fn"])
         ELSE MultiJobEnds(r, jb, "thrown")

\* await delay(5000) between two windows resolves (line 250): i +=
\* this.concurrency and the next turn of the loop
MultiBatchDelayElapses(r) ==
    /\ widget = "MultiProses"
    /\ r \in 1..Len(runs)
    /\ runs[r].status = "delay"
    /\ LET run2 == MultiLoopAt(runs[r], runs[r].i + concurrency, isRunning,
                               grid)
       IN  /\ runs' = [runs EXCEPT ![r] = run2]
           /\ MultiFinally(run2.status)
    /\ UNCHANGED <<widget, concurrency, modelImage, secondImage, files,
                   prompts, grid, results, retryVars, toolVars>>

NextMulti ==
    \/ \E c \in ConcurrencyChoices : MultiSetConcurrency(c)
    \/ \E n \in 0..MaxVideoPrompts : MultiPromptInput(n)
    \/ MultiStop
    \/ MultiGenerateVideos
    \/ \E r \in 1..Len(runs) :
          \/ MultiBatchDelayElapses(r)
          \/ \E jb \in runs[r].inflight :
                \/ \E o \in Outcomes \ {"noimage"} : MultiFnSettles(r, jb, o)
                \/ MultiDelayElapses(r, jb)

(***************************************************************************)
(* The widgets' specifications                                             *)
(***************************************************************************)
RetryIdle ==
    /\ policy = "specific"
    /\ retries = 0
    /\ rpc = "idle"
    /\ attempt = 0
    /\ lastError = Unsettled
    /\ fnCalls = 0
    /\ outLog = <<>>
    /\ onRetryLog = <<>>
    /\ delays = 0
    /\ settled = Unsettled

WidgetConcurrency(w) ==
    CASE w \in PoseWidgets -> PoseConcurrency(w)
      [] w = "BatchEditor" -> BatchConcurrency
      [] w = "MultiProses" -> MultiConcurrency

\* the state of widget w after init()
WidgetInit(w) ==
    /\ RetryIdle
    /\ widget = w
    /\ isRunning = FALSE
    /\ concurrency = WidgetConcurrency(w)
    /\ modelImage = FALSE
    /\ secondImage = FALSE
    /\ files = 0
    /\ prompts = 0
    /\ grid = NoGrid
    /\ generateButton = [disabled |-> w # "MultiProses", hidden |-> FALSE]
    /\ results = <<>>
    /\ runs = <<>>
    /\ ToolsIdle

InitPose == \E w \in PoseWidgets : WidgetInit(w)

SpecPose == InitPose /\ [][NextPose]_vars

InitBatch == WidgetInit("BatchEditor")

SpecBatch == InitBatch /\ [][NextBatch]_vars

\* the widgets that keep an outcome per job
ImageWidgets == PoseWidgets \cup {"BatchEditor"}

InitImageWidgets == \E w \in ImageWidgets : WidgetInit(w)

NextImageWidgets ==
    \/ NextPose
    \/ NextBatch

SpecImageWidgets == InitImageWidgets /\ [][NextImageWidgets]_vars

\* The image widgets when every attempt of every operation rejects.  A
\* request that was sent settles and a timer that was set fires, so the
\* steps of the jobs in flight are taken sooner or later.
UserSteps ==
    \/ \E type \in ImageTypes : PoseHandleFileUpload(type)
    \/ \E type \in ImageTypes : PoseClearImage(type)
    \/ PoseReset
    \/ PoseGeneratePoses
    \/ \E n \in 0..MaxFiles : BatchHandleFileUpload(n)
    \/ \E n \in 0..MaxPrompts : BatchUpdatePromptCounter(n)
    \/ BatchStop
    \/ BatchGenerateEdits

JobStepsAllReject ==
    \E r \in 1..Len(runs) : \E jb \in runs[r].inflight :
        \/ PoseRunJobSettles(r, jb, "error")
        \/ \E ok \in BOOLEAN : BatchBlobSettles(r, jb, ok)
        \/ BatchFnSettles(r, jb, "error")
        \/ BatchDelayElapses(r, jb)

NextAllReject ==
    \/ UserSteps
    \/ JobStepsAllReject

SpecAllReject ==
    InitImageWidgets /\ [][NextAllReject]_vars /\ WF_vars(JobStepsAllReject)

InitMulti == WidgetInit("MultiProses")

\* the widgets with a stop button
StopWidgets == {"BatchEditor", "MultiProses"}

InitStopWidgets == \E w \in StopWidgets : WidgetInit(w)

NextStopWidgets ==
    \/ NextBatch
    \/ NextMulti

SpecStopWidgets == InitStopWidgets /\ [][NextStopWidgets]_vars

SpecMulti == InitMulti /\ [][NextMulti]_vars

Widgets == PoseWidgets \cup {"BatchEditor", "MultiProses"}

InitWidgets == \E w \in Widgets : WidgetInit(w)

NextWidgets ==
    \/ NextPose
    \/ NextBatch
    \/ NextMulti

SpecWidgets == InitWidgets /\ [][NextWidgets]_vars

InFlight == UNION {{Id(r, jb.job) : jb \in runs[r].inflight} : r \in 1..Len(runs)}

\* C9: the number of jobs started and not yet settled is at most the
\* widget's concurrency value.
C9_AtMostConcurrencyInFlight ==
    Cardinality(InFlight) <= concurrency

\* C10: no job of window k+1 is started before every job of window k has
\* settled: a job in flight always belongs to the last window its run has
\* started.
C10_WindowsNeverOverlap ==
    \A r \in 1..Len(runs) : \A jb \in runs[r].inflight :
        jb.win = Len(runs[r].windows)

C10_Witness ==
    \E r \in 1..Len(runs) :
        /\ Len(runs[r].windows) >= 2
        /\ runs[r].inflight # {}

Ceil(a, b) == (a + b - 1) \div b

\* the run went through its whole loop with this.isRunning true and
\* this.concurrency unchanged
RanToEnd(run) == run.status = "done" /\ ~run.cancelled /\ ~run.resized

\* C11: a run over L jobs with fixed concurrency C that is not cancelled
\* starts exactly ceil(L/C) windows; window k is the slice of the job list
\* from (k-1)*C to k*C (the last one may be shorter), so the windows cover
\* every job exactly once.
C11_CeilWindows ==
    \A r \in 1..Len(runs) :
        LET run == runs[r]
        IN  RanToEnd(run) =>
              /\ Len(run.windows) = Ceil(run.total, run.c)
              /\ \A k \in 1..Len(run.windows) :
                    run.windows[k] =
                       {j \in 0..(run.total - 1) :
                           (k - 1) * run.c <= j /\ j < k * run.c}
              /\ \A j \in 0..(run.total - 1) :
                    Cardinality({k \in 1..Len(run.windows) :
                                    j \in run.windows[k]}) = 1

C11_Witness ==
    \E r \in 1..Len(runs) :
        /\ RanToEnd(runs[r])
        /\ runs[r].total % runs[r].c # 0
        /\ Len(runs[r].windows) >= 2

\* the job index behind results[f][q] of BatchEditor (1-based f, q)
BatchJobIndex(f, q) == (f - 1) * Len(results[f]) + (q - 1)

C13_JobResultsMirrorPrompts ==
    (/\ widget = "MultiProses"
     /\ Len(runs) >= 1
     /\ runs[Len(runs)].status = "done")
    => \A i \in 1..Len(results) : results[i].job = i - 1

\* the number of entries of the widget's outcome array
OutcomeCount ==
    IF widget = "BatchEditor"
      THEN IF results = <<>> THEN 0 ELSE Len(results) * Len(results[1])
      ELSE Len(results)

\* C14: from the start of a run until it ends, the widget's outcome array
\* has as many entries as the run has jobs, whatever the user does
\* meanwhile.
C14_OutcomeLengthIsJobCount ==
    \A r \in 1..Len(runs) :
        Active(runs[r]) => OutcomeCount = runs[r].total

\* C15: an outcome entry changes state at most once, from pending to done
\* or to error; an entry that is done or error is never written again.
C15_EntryTransitionsOnce ==
    [][\A i \in 1..Len(results) :
          (/\ widget \in PoseWidgets
           /\ Len(runs') = Len(runs)
           /\ i <= Len(results')
           /\ results[i].status \in {"done", "error"})
          => results'[i] = results[i]]_vars

\* C16: once the running flag of a run has been cleared, the loop of that
\* run starts no further window, even when a new run is started on the
\* widget afterwards.
C16_ClearedRunStartsNoWindow ==
    [][\A r \in 1..Len(runs) :
          runs[r].cancelled => runs'[r].windows = runs[r].windows]_vars

\* the jobs of run that were in no window
NeverStarted(run) ==
    {j \in 0..(run.total - 1) :
        \A k \in 1..Len(run.windows) : j \notin run.windows[k]}

\* the outcome of job j of the last run is still pending (BatchEditor), its
\* placeholder still waits (MultiProses)
StillPending(j) ==
    IF widget = "BatchEditor"
      THEN LET job == runs[Len(runs)].jobs[j + 1]
           IN  results[job.fileIndex + 1][job.promptIndex + 1].status = "pending"
      ELSE grid.run = Len(runs) /\ j \in grid.present

\* C17: in BatchEditor and MultiProses, once stop has cleared the running
\* flag the run starts no further window, and when the run has ended the
\* outcomes of the jobs of the windows it never started are still pending.
C17_StoppedRunStartsNoWindow ==
    /\ [](\A r \in 1..Len(runs) :
            (/\ widget \in StopWidgets
             /\ r = Len(runs)
             /\ runs[r].cancelled
             /\ runs[r].status = "done")
            => \A j \in NeverStarted(runs[r]) : StillPending(j))
    /\ [][\A r \in 1..Len(runs) :
             (widget \in StopWidgets /\ runs[r].cancelled)
             => runs'[r].windows = runs[r].windows]_vars

\* a stopped run has ended with a window it never started
C17_Witness ==
    /\ widget \in StopWidgets
    /\ Len(runs) >= 1
    /\ runs[Len(runs)].cancelled
    /\ runs[Len(runs)].status = "done"
    /\ NeverStarted(runs[Len(runs)]) # {}

\* C18: a job that is in flight when stop clears the running flag is
\* allowed to finish and its outcome is recorded: when its operation
\* resolves after the stop its entry becomes done with its payload, when
\* it fails for good after the stop its entry becomes error.
C18_InFlightRecordedAfterStop ==
    [][\A r \in 1..Len(runs) : \A jb \in runs[r].inflight :
          LET job == runs[r].jobs[jb.job + 1]
              e == results'[job.fileIndex + 1][job.promptIndex + 1]
          IN  /\ (~isRunning /\ BatchFnSettles(r, jb, "image"))
                    => (e.status = "done" /\ e.imageUrl = Id(r, jb.job))
              /\ (/\ ~isRunning
                  /\ BatchFnSettles(r, jb, "error")
                  /\ \A jb2 \in runs'[r].inflight : jb2.job # jb.job)
                    => e.status = "error"]_vars

\* the step in which job jb of run r has failed for good with the error
\* of its own operation
FailsForGood(r, jb) ==
    \/ PoseRunJobSettles(r, jb, "error")
    \/ /\ BatchFnSettles(r, jb, "error")
       /\ \A jb2 \in runs'[r].inflight : jb2.job # jb.job

\* the entry of job j of run r in rs
EntryOf(rs, r, j) ==
    IF widget = "BatchEditor"
      THEN rs[runs[r].jobs[j + 1].fileIndex + 1]
             [runs[r].jobs[j + 1].promptIndex + 1]
      ELSE ArrayGet(rs, j)

\* C19: a job whose operation fails for good gets an error outcome at its
\* own index with the message of its error; no other outcome changes, the
\* other jobs of the window stay in flight, and when the failure settles
\* the window of a run that is not cancelled and has jobs left, the next
\* window is started.
C19_FailureIsLocal ==
    [][\A r \in 1..Len(runs) : \A jb \in runs[r].inflight :
          FailsForGood(r, jb) =>
            LET run == runs[r]
                rest == run.inflight \ {jb}
            IN  /\ EntryOf(results', r, jb.job).status = "error"
                /\ EntryOf(results', r, jb.job).errorMessage = Id(r, jb.job)
                /\ \A j \in 0..(run.total - 1) :
                      j # jb.job =>
                        EntryOf(results', r, j) = EntryOf(results, r, j)
                /\ rest \subseteq runs'[r].inflight
                /\ (/\ isRunning
                    /\ WindowSettled(run.windows[Len(run.windows)], rest)
                    /\ run.i + concurrency < run.total)
                      => Len(runs'[r].windows) = Len(run.windows) + 1]_vars

\* a job of the first window has failed, its sibling is done and the run
\* has started its second window
C19_Witness ==
    /\ widget \in PoseWidgets
    /\ Len(runs) = 1
    /\ Len(runs[1].windows) >= 2
    /\ Len(results) >= 2
    /\ results[1].status = "error" /\ results[1].errorMessage = Id(1, 0)
    /\ results[2].status = "done"

\* every entry of the widget's outcome array is error
AllOutcomesError ==
    IF widget = "BatchEditor"
      THEN \A f \in 1..Len(results) : \A q \in 1..Len(results[f]) :
              results[f][q].status = "error"
      ELSE \A i \in 1..Len(results) : results[i].status = "error"

BatchSettledEntries ==
    {fq \in (1..Len(results)) \X (1..MaxPrompts) :
        /\ fq[2] <= Len(results[fq[1]])
        /\ results[fq[1]][fq[2]].status # "pending"}

\* C21: the completed count a batch widget reports equals the number of
\* outcome entries that are no longer pending, after every settled job and
\* after a cancellation in the middle of a run.
C21_CompletedCountIsSettledCount ==
    (widget = "BatchEditor" /\ Len(runs) >= 1)
    => runs[Len(runs)].completedJobs = Cardinality(BatchSettledEntries)

\* C22: a run that ends reports 'stopped' when cancellation made its loop
\* stop before every window was started, and 'complete' when every window
\* was started without cancellation.
C22_FinalStatusMatches ==
    \A r \in 1..Len(runs) :
        runs[r].status = "done" =>
          /\ (runs[r].cancelled /\ NeverStarted(runs[r]) # {})
                => runs[r].final = "stopped"
          /\ (~runs[r].cancelled /\ NeverStarted(runs[r]) = {})
                => runs[r].final = "complete"

\* C23: once the running flag has been cleared, a job that is in flight
\* inside the retry wrapper makes no further attempt of its operation.
C23_NoAttemptAfterCancel ==
    [][\A r \in 1..Len(runs) : \A jb \in runs[r].inflight :
          (~isRunning /\ jb.phase \in {"fn", "delay"})
          => \A jb2 \in runs'[r].inflight :
                jb2.job = jb.job => jb2.attempt = jb.attempt]_vars

\* C24: in MultiProses a run that is not cancelled starts every prompt
\* index exactly once, also when the concurrency buttons are used during
\* the run.
C24_EveryIndexStartedOnce ==
    \A r \in 1..Len(runs) :
        (/\ widget = "MultiProses"
         /\ ~Active(runs[r])
         /\ ~runs[r].cancelled)
        => \A j \in 0..(runs[r].total - 1) :
              Cardinality({k \in 1..Len(runs[r].windows) :
                              j \in runs[r].windows[k]}) = 1

\* C25: after reset() on a pose widget the results array stays empty until
\* the next run starts: no job of the run that was reset writes into it.
C25_ResultsStayEmptyAfterReset ==
    [][(/\ widget \in PoseWidgets
        /\ Len(runs) >= 1
        /\ results = <<>>
        /\ Len(runs') = Len(runs))
       => results' = <<>>]_vars

\* C26: in the pose widgets the generate button is disabled whenever
\* isRunning is true.
C26_RunningImpliesDisabled ==
    (widget \in PoseWidgets /\ isRunning) => generateButton.disabled

\* C27: in the pose widgets every payload and every error message in the
\* results array comes from a job of the run that created the array, never
\* from a job of an earlier run.
C27_OnlyOwnRunWrites ==
    widget \in PoseWidgets =>
      \A i \in 1..Len(results) :
          /\ results[i].imageUrl.run \in {0, Len(runs)}
          /\ results[i].errorMessage.run \in {0, Len(runs)}

(***************************************************************************)
(* The single-shot generators: ImageGenerator.generateImage,               *)
(* ImageEditor.generateEdit, NarrativeAffiliator.generateNarrative.  Each  *)
(* awaits one withRetry call (part 1) between setLoading(true) and the     *)
(* finally block.                                                          *)
(***************************************************************************)
SingleShots == {"ImageGenerator", "ImageEditor", "NarrativeAffiliator"}

ImageGeneratorRetries == 10
ImageEditorRetries == 10
NarrativeRetries == 5

\* the retries option each generator passes to withRetry
ShotRetries(t) ==
    CASE t = "ImageGenerator" -> ImageGeneratorRetries
      [] t = "ImageEditor" -> ImageEditorRetries
      [] t = "NarrativeAffiliator" -> NarrativeRetries

\* the validation at the head of the generate function
ShotInputsValid ==
    CASE tool = "ImageGenerator" -> inputs.prompt
      [] tool = "ImageEditor" -> inputs.prompt /\ inputs.image
      [] tool = "NarrativeAffiliator" -> inputs.image

\* The promise reactions of a settled withRetry call run before any other
\* task: no event handler and no timer runs while the continuation of the
\* generate function is due.
ReactionsDone == ~(shot.pc = "retry" /\ rpc \in {"resolved", "rejected"})

\* a body that skips the finally block when the try block failed
AfterSettleSkipsOnFailure(outcome) ==
    IF outcome = "success" THEN "finally" ELSE "idle"

\* where the generate function goes after its try or catch block: the
\* finally block, whatever the outcome
AfterSettle(outcome) == "finally"

\* what the try block can make of a resolved withRetry call: ImageEditor and
\* NarrativeAffiliator throw on a response they cannot use
BodyOutcomes ==
    IF tool = "ImageGenerator" THEN {"success"} ELSE {"success", "failed"}

\* the input event of the prompt field (the field is disabled while
\* loading; ImageEditor's quick idea buttons are not)
ShotPromptInput(p) ==
    /\ tool \in {"ImageGenerator", "ImageEditor"}
    /\ ReactionsDone
    /\ tool = "ImageEditor" \/ shot.pc = "idle"
    /\ inputs' = [inputs EXCEPT !.prompt = p]
    /\ UNCHANGED <<tool, isLoading, shotButton, shot, seqVars, productVars,
                   retryVars, widgetVars>>

\* handleFileUpload once blobToDataUrl has settled
ShotHandleFileUpload(ok) ==
    /\ tool \in {"ImageEditor", "NarrativeAffiliator"}
    /\ ReactionsDone
    /\ inputs' = [inputs EXCEPT !.image =
                     IF tool = "ImageEditor" THEN (ok \/ inputs.image) ELSE ok]
    /\ shotButton' =
          IF tool = "NarrativeAffiliator"
            THEN [disabled |-> isLoading \/ ~inputs'.image]
            ELSE shotButton
    /\ UNCHANGED <<tool, isLoading, shot, seqVars, productVars,
                   retryVars, widgetVars>>

\* clearImage
ShotClearImage ==
    /\ tool \in {"ImageEditor", "NarrativeAffiliator"}
    /\ ReactionsDone
    /\ inputs' = [inputs EXCEPT !.image = FALSE]
    /\ shotButton' =
          IF tool = "NarrativeAffiliator"
            THEN [disabled |-> TRUE]
            ELSE shotButton
    /\ UNCHANGED <<tool, isLoading, shot, seqVars, productVars,
                   retryVars, widgetVars>>

\* a click on the generate button that passes the validation: setLoading(true)
\* and withRetry up to its first await fn()
ShotGenerate ==
    /\ tool \in SingleShots
    /\ ReactionsDone
    /\ ~shotButton.disabled
    /\ ShotInputsValid
    /\ isLoading' = TRUE
    /\ shotButton' = [disabled |-> TRUE]
    /\ shot' = [pc |-> "retry", outcome |-> "none"]
    /\ policy' = "specific"
    /\ retries' = ShotRetries(tool)
    /\ attempt' = 1
    /\ fnCalls' = 1
    /\ rpc' = "fn"
    /\ lastError' = Unsettled
    /\ outLog' = <<>>
    /\ onRetryLog' = <<>>
    /\ delays' = 0
    /\ settled' = Unsettled
    /\ UNCHANGED <<tool, inputs, seqVars, productVars, widgetVars>>

\* the withRetry call has settled: the rest of the try block, or the catch
\* block, up to the await delay(1500) of the finally block
ShotSettles(outcome) ==
    /\ tool \in SingleShots
    /\ shot.pc = "retry"
    /\ rpc \in {"resolved", "rejected"}
    /\ IF rpc = "resolved" THEN outcome \in BodyOutcomes ELSE outcome = "failed"
    /\ shot' = [pc |-> AfterSettle(outcome), outcome |-> outcome]
    /\ UNCHANGED <<tool, isLoading, inputs, shotButton, seqVars, productVars,
                   retryVars, widgetVars>>

\* delay(1500) elapses: setLoading(false)
ShotFinally ==
    /\ tool \in SingleShots
    /\ shot.pc = "finally"
    /\ isLoading' = FALSE
    /\ shotButton' = [disabled |-> FALSE]
    /\ shot' = [shot EXCEPT !.pc = "idle"]
    /\ UNCHANGED <<tool, inputs, seqVars, productVars, retryVars, widgetVars>>

\* the steps of a generate function that is under way
ShotSteps ==
    \/ shot.pc = "retry" /\ FnResolves
    \/ shot.pc = "retry" /\ \E e \in RejectionValues : FnRejects(e)
    \/ shot.pc = "retry" /\ DelayElapses
    \/ \E outcome \in {"success", "failed"} : ShotSettles(outcome)
    \/ ShotFinally

NextShot ==
    \/ \E p \in BOOLEAN : ShotPromptInput(p)
    \/ \E ok \in BOOLEAN : ShotHandleFileUpload(ok)
    \/ ShotClearImage
    \/ ShotGenerate
    \/ ShotSteps

(***************************************************************************)
(* The sequential batches: ImageGenerator.generateBatchImages and          *)
(* VideoGenerator.generateBatchVideos, one prompt at a time, with the      *)
(* interruptible delay between two prompts.  Times are in thousandths of   *)
(* a second.  VideoGenerator's optional image file per prompt is left      *)
(* out: the batch is run without files.                                    *)
(***************************************************************************)
MaxBatchPrompts == 3
MaxDelayTicks == 2

SeqTools == {"ImageGenerator", "VideoGenerator"}

ImageBatchRetries == 5
VideoBatchRetries == 10
ImageBatchDelaySeconds == 5
VideoBatchDelaySeconds == 10

SeqRetries == IF tool = "ImageGenerator" THEN ImageBatchRetries ELSE VideoBatchRetries

\* the value of the delay field at init, and the fallback of `valueAsNumber || 5`
SeqDelayDefault ==
    1000 * (IF tool = "ImageGenerator" THEN ImageBatchDelaySeconds
                                      ELSE VideoBatchDelaySeconds)

\* the values typed into the delay field: negative, zero, fractions of a
\* second, whole seconds
DelayValues == {500 * k : k \in (-3)..(2 * MaxDelayTicks)}

\* Math.ceil(ms / 1000)
MathCeil(ms) == -((-ms) \div 1000)

\* an interval that only stops when the count is exactly zero
IntervalDoneAtZero(secondsLeft) == secondsLeft = 0

\* `if (secondsLeft <= 0)` in the interval callback
IntervalDone(secondsLeft) == secondsLeft <= 0

\* The head of the for loop at prompt i: the break on a cleared flag or the
\* end of the loop, both followed by the outer finally block, or the next
\* prompt up to its first await.
SeqLoopHead(b, i) ==
    IF i < b.total /\ isBatchRunning
      THEN /\ batch' = [b EXCEPT !.pc = "fn", !.index = i, !.attempt = 1,
                                 !.started = Append(b.started, i)]
           /\ UNCHANGED <<isBatchRunning, isLoading, batchButton>>
      ELSE /\ batch' = [b EXCEPT !.pc = "idle"]
           /\ isBatchRunning' = FALSE
           /\ isLoading' = IF tool = "ImageGenerator" THEN FALSE ELSE isLoading
           /\ batchButton' = [disabled |-> FALSE, hidden |-> FALSE]

\* after the try/catch of one prompt: the interruptible delay if another
\* prompt follows and the flag is set, else the loop head
SeqAfterJob(b) ==
    IF b.index < b.total - 1 /\ isBatchRunning
      THEN /\ batch' = [b EXCEPT !.pc = "delay",
                                 !.ms = batchDelaySeconds,
                                 !.secondsLeft = MathCeil(batchDelaySeconds),
                                 !.ticks = 0]
           /\ UNCHANGED <<isBatchRunning, isLoading, batchButton>>
      ELSE SeqLoopHead(b, b.index + 1)

\* the input event of the delay field: `valueAsNumber || default`
SeqDelayInput(nan, v) ==
    /\ tool \in SeqTools
    /\ ReactionsDone
    /\ batchDelaySeconds' = IF nan \/ v = 0 THEN SeqDelayDefault ELSE v
    /\ UNCHANGED <<tool, shotVars, isBatchRunning, batchPrompts, batchButton,
                   batch, productVars, retryVars, widgetVars>>

\* the input event of the prompt field
SeqPromptInput(n) ==
    /\ tool \in SeqTools
    /\ ReactionsDone
    /\ batchPrompts' = n
    /\ UNCHANGED <<tool, shotVars, isBatchRunning, batchDelaySeconds,
                   batchButton, batch, productVars, retryVars, widgetVars>>

\* a click on the stop button, which is shown while the generate button is
\* hidden
SeqStop ==
    /\ tool \in SeqTools
    /\ ReactionsDone
    /\ batchButton.hidden
    /\ isBatchRunning' = FALSE
    /\ UNCHANGED <<tool, shotVars, batchDelaySeconds, batchPrompts,
                   batchButton, batch, productVars, retryVars, widgetVars>>

\* a click on the generate batch button with at least one prompt: up to the
\* first await of the first prompt
SeqGenerate ==
    /\ tool \in SeqTools
    /\ ReactionsDone
    /\ ~batchButton.disabled
    /\ ~batchButton.hidden
    /\ batchPrompts > 0
    /\ isBatchRunning' = TRUE
    /\ isLoading' = IF tool = "ImageGenerator" THEN TRUE ELSE isLoading
    /\ batchButton' = [disabled |-> TRUE, hidden |-> TRUE]
    /\ batch' = [pc |-> "fn", index |-> 0, total |-> batchPrompts,
                 attempt |-> 1, ms |-> 0, secondsLeft |-> 0, ticks |-> 0,
                 started |-> <<0>>]
    /\ UNCHANGED <<tool, inputs, shotButton, shot, batchDelaySeconds,
                   batchPrompts, productVars, retryVars, widgetVars>>

\* an attempt of the operation settles inside withGenericRetry
SeqFnSettles(ok) ==
    /\ tool \in SeqTools
    /\ ReactionsDone
    /\ batch.pc = "fn"
    /\ IF ~ok /\ batch.attempt <= SeqRetries
         THEN /\ batch' = [batch EXCEPT !.pc = "retry"]
              /\ UNCHANGED <<isBatchRunning, isLoading, batchButton>>
         ELSE SeqAfterJob(batch)
    /\ UNCHANGED <<tool, inputs, shotButton, shot, batchDelaySeconds,
                   batchPrompts, productVars, retryVars, widgetVars>>

\* delay(delayMs) of withGenericRetry elapses: the next attempt
SeqRetryDelayElapses ==
    /\ tool \in SeqTools
    /\ ReactionsDone
    /\ batch.pc = "retry"
    /\ batch' = [batch EXCEPT !.pc = "fn", !.attempt = batch.attempt + 1]
    /\ UNCHANGED <<tool, shotVars, isBatchRunning, batchDelaySeconds,
                   batchPrompts, batchButton, productVars, retryVars,
                   widgetVars>>

\* one call of the interval callback of the interruptible delay; when it
\* resolves, the loop goes on in the same task
SeqTick ==
    /\ tool \in SeqTools
    /\ ReactionsDone
    /\ batch.pc = "delay"
    /\ LET ticked == [batch EXCEPT !.ticks = batch.ticks + 1]
           counted == [ticked EXCEPT !.secondsLeft = batch.secondsLeft - 1]
       IN  IF ~isBatchRunning
             THEN SeqLoopHead(ticked, batch.index + 1)
             ELSE IF IntervalDone(counted.secondsLeft)
                    THEN SeqLoopHead(counted, batch.index + 1)
                    ELSE /\ batch' = counted
                         /\ UNCHANGED <<isBatchRunning, isLoading, batchButton>>
    /\ UNCHANGED <<tool, inputs, shotButton, shot, batchDelaySeconds,
                   batchPrompts, productVars, retryVars, widgetVars>>

\* the steps of a batch that is under way
SeqSteps ==
    \/ \E ok \in BOOLEAN : SeqFnSettles(ok)
    \/ SeqRetryDelayElapses
    \/ SeqTick

NextSeq ==
    \/ \E nan \in BOOLEAN, v \in DelayValues : SeqDelayInput(nan, v)
    \/ \E n \in 0..MaxBatchPrompts : SeqPromptInput(n)
    \/ SeqStop
    \/ SeqGenerate
    \/ SeqSteps

\* the state of component t after init()
ToolInit(t) ==
    /\ RetryIdle
    /\ WidgetsIdle
    /\ tool = t
    /\ isLoading = FALSE
    /\ inputs = [prompt |-> FALSE, image |-> FALSE]
    /\ shotButton = [disabled |-> FALSE]
    /\ shot = NoShot
    /\ isBatchRunning = FALSE
    /\ batchDelaySeconds =
          IF t = "ImageGenerator" THEN 1000 * ImageBatchDelaySeconds
          ELSE IF t = "VideoGenerator" THEN 1000 * VideoBatchDelaySeconds
          ELSE 0
    /\ batchPrompts = 0
    /\ batchButton = [disabled |-> FALSE, hidden |-> FALSE]
    /\ batch = NoBatch
    /\ sourceImage = FALSE
    /\ heap = <<>>
    /\ imageResults = <<>>
    /\ tasks = {}

InitShot == \E t \in SingleShots : ToolInit(t)

\* the single-shot mode of the three generators; the batch mode of
\* ImageGenerator, which also writes isLoading, is SpecSeq
SpecShot == InitShot /\ [][NextShot]_vars /\ WF_vars(ShotSteps)

InitSeq == \E t \in SeqTools : ToolInit(t)

SpecSeq == InitSeq /\ [][NextSeq]_vars /\ WF_vars(SeqSteps)

\* C28: every invocation of a single-shot generator that passes the
\* validation sets isLoading to true and, its attempts settling, ends with
\* isLoading false and the generate button enabled, on success, on a
\* failure that is not retried and on exhausted retries.
C28_LoadingEndsAfterEveryShot ==
    /\ [][(shot.pc = "idle" /\ shot'.pc # "idle") => isLoading']_vars
    /\ (shot.pc # "idle")
          ~> (shot.pc = "idle" /\ ~isLoading /\ ~shotButton.disabled)

\* an invocation whose withRetry call used up its retries has ended
C28_Witness ==
    /\ tool \in SingleShots
    /\ shot = [pc |-> "idle", outcome |-> "failed"]
    /\ rpc = "rejected"
    /\ fnCalls = ShotRetries(tool) + 1
    /\ ~isLoading
    /\ ~shotButton.disabled

\* the number of interval callbacks within which interruptibleDelay(ms)
\* resolves
TickBound(ms) == Max(1, MathCeil(ms))

\* C30: the interruptible delay resolves for every ms: within
\* max(1, ceil(ms / 1000)) ticks, and at the first tick after the batch
\* flag was cleared, after which the loop starts no further prompt.
C30_DelayAlwaysResolves ==
    /\ [](batch.pc = "delay" => batch.ticks < TickBound(batch.ms))
    /\ [][(batch.pc = "delay" /\ ~isBatchRunning /\ batch' # batch)
            => (batch'.pc = "idle" /\ batch'.started = batch.started)]_vars
    /\ (batch.pc = "delay") ~> (batch.pc # "delay")

\* a delay that was stopped before its time resolved at the next tick and
\* the batch ended with prompts left
C30_Witness ==
    /\ tool \in SeqTools
    /\ batch.pc = "idle"
    /\ Len(batch.started) < batch.total
    /\ batch.ticks >= 2
    /\ batch.ticks < TickBound(batch.ms)

(***************************************************************************)
(* ProductShotPro in LookBook mode, from the upload to the results grid:   *)
(* runPromptBasedGeneration, regenerateSingle, generateSingleLookBookVideo.*)
(* this.imageResults holds references to ImageResult objects: the          *)
(* functions keep a reference across their await, mutate the object in     *)
(* place, or store a copy ({...result, ...}) in the array.  An image is    *)
(* named by the number of the object first stored with it; a video by the  *)
(* image it was made from.  handleStartOver is left out.                   *)
(***************************************************************************)
NumLooks == 1
MaxRegens == 2

ProductVideoRetries == 10

NoUrl == 0

ImageResult(status, imageUrl, videoUrl) ==
    [status |-> status, imageUrl |-> imageUrl, videoUrl |-> videoUrl]

\* the object imageResults[index] refers to (index is 0-based)
ResultAt(index) == heap[imageResults[index + 1]]

\* render(): the overlay with the regenerate button is drawn for an entry
\* that is not pending, not in error, not a finished video, and has an image
RegenerateButtonShown(e) ==
    /\ e.status \notin {"pending", "error"}
    /\ ~(e.status = "video-done" /\ e.videoUrl # NoUrl)
    /\ e.imageUrl # NoUrl

\* render(): the Buat Video button is drawn in LookBook mode for an entry
\* that is done or whose video failed
VideoButtonShown(e) == e.status \in {"done", "video-error"}

\* handleUpload once blobToDataUrl has resolved
ProductHandleUpload ==
    /\ tool = "ProductShotPro"
    /\ ~sourceImage
    /\ sourceImage' = TRUE
    /\ UNCHANGED <<tool, heap, imageResults, tasks, shotVars, seqVars,
                   retryVars, widgetVars>>

\* a click on the generate button of the uploaded state:
\* runPromptBasedGeneration up to await Promise.all
ProductRunGeneration ==
    /\ tool = "ProductShotPro"
    /\ sourceImage
    /\ imageResults = <<>>
    /\ heap' = [k \in 1..NumLooks |-> ImageResult("pending", NoUrl, NoUrl)]
    /\ imageResults' = [k \in 1..NumLooks |-> k]
    /\ tasks' = {[kind |-> "job", index |-> k - 1, ref |-> k, from |-> NoUrl,
                  phase |-> "fn", attempt |-> 1] : k \in 1..NumLooks}
    /\ UNCHANGED <<tool, sourceImage, shotVars, seqVars, retryVars, widgetVars>>

\* generateStyledImage settles for a job of runPromptBasedGeneration or for
\* regenerateSingle: a copy of the object the function holds is stored
ProductImageSettles(t, ok) ==
    /\ tool = "ProductShotPro"
    /\ t \in tasks
    /\ t.kind \in {"job", "regen"}
    /\ LET e == IF ok THEN [heap[t.ref] EXCEPT !.status = "done",
                                               !.imageUrl = Len(heap) + 1]
                      ELSE [heap[t.ref] EXCEPT !.status = "error"]
       IN  /\ heap' = Append(heap, e)
           /\ imageResults' = [imageResults EXCEPT ![t.index + 1] = Len(heap) + 1]
    /\ tasks' = tasks \ {t}
    /\ UNCHANGED <<tool, sourceImage, shotVars, seqVars, retryVars, widgetVars>>

\* the number of objects the model still allows
ObjectsLeft ==
    2 * NumLooks + MaxRegens
      - Len(heap) - Cardinality({t \in tasks : t.kind \in {"job", "regen"}})

\* a click on the regenerate button of entry index: regenerateSingle up to
\* await generateStyledImage
ProductRegenerateSingle(index) ==
    /\ tool = "ProductShotPro"
    /\ sourceImage
    /\ index < Len(imageResults)
    /\ RegenerateButtonShown(ResultAt(index))
    /\ ObjectsLeft > 0
    /\ heap' = [heap EXCEPT ![imageResults[index + 1]].status = "pending",
                            ![imageResults[index + 1]].imageUrl = NoUrl]
    /\ tasks' = tasks \cup {[kind |-> "regen", index |-> index,
                             ref |-> imageResults[index + 1], from |-> NoUrl,
                             phase |-> "fn", attempt |-> 1]}
    /\ UNCHANGED <<tool, sourceImage, imageResults, shotVars, seqVars,
                   retryVars, widgetVars>>

\* a click on the Buat Video button of entry index:
\* generateSingleLookBookVideo up to the first await of withGenericRetry
ProductGenerateVideo(index) ==
    /\ tool = "ProductShotPro"
    /\ index < Len(imageResults)
    /\ VideoButtonShown(ResultAt(index))
    /\ ResultAt(index).imageUrl # NoUrl
    /\ heap' = [heap EXCEPT ![imageResults[index + 1]].status = "video-generating"]
    /\ tasks' = tasks \cup {[kind |-> "video", index |-> index,
                             ref |-> imageResults[index + 1],
                             from |-> ResultAt(index).imageUrl,
                             phase |-> "fn", attempt |-> 1]}
    /\ UNCHANGED <<tool, sourceImage, imageResults, shotVars, seqVars,
                   retryVars, widgetVars>>

\* an attempt of generateVideoContent settles inside withGenericRetry; on
\* the last one, or on success, the rest of generateSingleLookBookVideo
ProductVideoSettles(t, ok) ==
    /\ tool = "ProductShotPro"
    /\ t \in tasks
    /\ t.kind = "video"
    /\ t.phase = "fn"
    /\ IF ok
         THEN /\ heap' = [heap EXCEPT ![t.ref].status = "video-done",
                                      ![t.ref].videoUrl = t.from]
              /\ tasks' = tasks \ {t}
         ELSE IF t.attempt <= ProductVideoRetries
                THEN /\ tasks' = (tasks \ {t}) \cup {[t EXCEPT !.phase = "delay"]}
                     /\ heap' = heap
                ELSE /\ heap' = [heap EXCEPT ![t.ref].status = "video-error"]
                     /\ tasks' = tasks \ {t}
    /\ UNCHANGED <<tool, sourceImage, imageResults, shotVars, seqVars,
                   retryVars, widgetVars>>

\* delay(3000) of withGenericRetry elapses: the next attempt
ProductVideoDelayElapses(t) ==
    /\ tool = "ProductShotPro"
    /\ t \in tasks
    /\ t.kind = "video"
    /\ t.phase = "delay"
    /\ tasks' = (tasks \ {t}) \cup {[t EXCEPT !.phase = "fn",
                                              !.attempt = t.attempt + 1]}
    /\ UNCHANGED <<tool, sourceImage, heap, imageResults, shotVars, seqVars,
                   retryVars, widgetVars>>

NextProduct ==
    \/ ProductHandleUpload
    \/ ProductRunGeneration
    \/ \E t \in tasks, ok \in BOOLEAN : ProductImageSettles(t, ok)
    \/ \E index \in 0..(NumLooks - 1) : ProductRegenerateSingle(index)
    \/ \E index \in 0..(NumLooks - 1) : ProductGenerateVideo(index)
    \/ \E t \in tasks, ok \in BOOLEAN : ProductVideoSettles(t, ok)
    \/ \E t \in tasks : ProductVideoDelayElapses(t)

InitProduct == ToolInit("ProductShotPro")

SpecProduct == InitProduct /\ [][NextProduct]_vars

\* C29: when a video of entry index succeeds, the object stored at
\* imageResults[index] is then 'video-done' with that video, whatever
\* regenerateSingle(index) did meanwhile; and an entry that is 'done' never
\* has a video made from another image than the one it shows.
C29_VideoLandsOnCurrentEntry ==
    /\ [](\A k \in 1..Len(imageResults) :
            LET e == heap[imageResults[k]]
            IN  (e.status = "done" /\ e.videoUrl # NoUrl)
                   => e.videoUrl = e.imageUrl)
    /\ [][\A t \in tasks :
            ProductVideoSettles(t, TRUE)
              => /\ heap'[imageResults'[t.index + 1]].status = "video-done"
                 /\ heap'[imageResults'[t.index + 1]].videoUrl = t.from]_vars

====
